---- MODULE Spec2Model ----
(***************************************************************************)
(* A model of the sports-data batch pipelines:                             *)
(*   fulldata.py       season-reset run (top-75 snapshot + one sheet/day)  *)
(*   hitters.py        daily run (leaderboards, enrichment, write_sheets)  *)
(*   soft_matchups.py  softness ranking of today's probable starters       *)
(*                                                                         *)
(* Conventions.  A JSON object is a record; a key the response does not    *)
(* carry is absent from the record's DOMAIN, so d.get(k, x) is Get(d,k,x)  *)
(* and d[k] raises KeyError exactly when k \notin DOMAIN d.  A nullable    *)
(* value (Python None / pandas NaN) is the empty tuple None; a present     *)
(* value v is Some(v) = <<v>>.  A DataFrame is [columns, rows].  Speeds,   *)
(* angles are in tenths, ERAs in hundredths, HR% in ten-thousandths.       *)
(***************************************************************************)
EXTENDS Integers, Sequences, FiniteSets, TLC

VARIABLES
    wb,         \* the workbook file on disk: [exists, zip, sheets]
    lastCall,   \* what the last writer call was handed, touched and printed
    nCalls,     \* writer calls made so far
    resp,       \* the leaderboard endpoint's current response
    sc,         \* the batted-ball samples statcast() returns
    result,     \* the last leaderboard pipeline run: its table and its output
    df_sc,      \* a batted-ball frame handed to the barrel classification
    barrel,     \* the flags both copies of the classification computed for it
    sched,      \* the schedule endpoint's response for the date
    feeds,      \* the live feed of each game, by gamePk
    homers,     \* what the last fetch_daily_homers_for returned
    pc,         \* where fulldata.main stands
    today,      \* main's loop variable
    top75,      \* main's season snapshot
    world,      \* the schedule and feeds main's last daily fetch saw
    visited,    \* the days main's loop has completed, with their row counts
    softSched,  \* today's schedule response, as soft_matchups sees it
    table       \* what the last run of soft_matchups.main printed

reportVars == <<wb, lastCall, nCalls>>
leaderVars == <<resp, sc, result>>
barrelVars == <<df_sc, barrel>>
eventVars == <<sched, feeds, homers>>
mainVars == <<pc, today, top75, world, visited>>
softVars == <<softSched, table>>
vars == <<reportVars, leaderVars, barrelVars, eventVars, mainVars, softVars>>

None == <<>>
Some(v) == <<v>>
EmptyDict == [k \in {} |-> TRUE]
Get(d, k, default) == IF k \in DOMAIN d THEN d[k] ELSE default

(***************************************************************************)
(* DataFrames                                                              *)
(***************************************************************************)
\* pd.DataFrame(list_of_dicts): the columns are the keys of the rows, and a
\* frame built from an empty list has no columns at all.
DataFrame(rows, cols) ==
    IF rows = <<>> THEN [columns |-> <<>>, rows |-> <<>>]
    ELSE [columns |-> cols, rows |-> rows]

\* df.empty
Empty(df) == Len(df.rows) = 0 \/ Len(df.columns) = 0

(***************************************************************************)
(* HTTP                                                                    *)
(***************************************************************************)
Ok(df) == [raised |-> FALSE, error |-> "", df |-> df]
Raise(e) == [raised |-> TRUE, error |-> e, df |-> [columns |-> <<>>, rows |-> <<>>]]

\* r.raise_for_status(): HTTPError for a 4xx or 5xx status.
RaisesForStatus(r) == r.status >= 400 /\ r.status < 600

(***************************************************************************)
(* Leaderboard fetchers                                                    *)
(***************************************************************************)
\* round(n / d, 4) in ten-thousandths: the nearest one, a tie going to the
\* even neighbour.  (On a tie Python rounds the double nearest to n/d, which
\* is exact only when d is a power of two; the inputs below have no ties.)
Round4(n, d) ==
    LET q == (10000 * n) \div d
        r == (10000 * n) % d
    IN  IF 2 * r < d THEN q
        ELSE IF 2 * r > d THEN q + 1
        ELSE IF q % 2 = 0 THEN q ELSE q + 1

GetOpt(d, k) == IF k \in DOMAIN d THEN Some(d[k]) ELSE None

HitterColumns ==
    <<"Player_ID", "Batter", "HRs", "Games", "AVG", "SLG", "HR%", "AB">>

\* r.json().get("stats", [])[0].get("splits", []): IndexError when the stats
\* array is absent or empty.
StatsIndexError(r) == Get(r.body, "stats", <<>>) = <<>>
Splits(r) == Get(Get(r.body, "stats", <<>>)[1], "splits", <<>>)

\* One row of fulldata's top-75 table (the field HRpct is the column "HR%").
Top75Row(s) ==
    LET pl == s.player
        st == s.stat
        ab == Get(st, "atBats", 0)
        hr_pct == IF ab > 0 THEN Some(Round4(Get(st, "homeRuns", 0), ab)) ELSE None
    IN  [Player_ID |-> pl.id, Batter |-> pl.fullName,
         HRs |-> GetOpt(st, "homeRuns"), Games |-> GetOpt(st, "gamesPlayed"),
         AVG |-> GetOpt(st, "avg"), SLG |-> GetOpt(st, "slg"),
         HRpct |-> hr_pct, AB |-> ab]

\* Step 1 of fetch_top75_and_enrich: the flattened season snapshot.
Top75Base(r) ==
    IF RaisesForStatus(r) THEN Raise("HTTPError")
    ELSE IF StatsIndexError(r) THEN Raise("IndexError")
    ELSE Ok(DataFrame([i \in DOMAIN Splits(r) |-> Top75Row(Splits(r)[i])],
                      HitterColumns))

\* The keys fetch_top50 reads by subscript.
Top50Keys == {"homeRuns", "gamesPlayed", "avg", "slg"}

\* One row of hitters' leaderboard: atBats of 0 or missing divides by 1.
Top50Row(s) ==
    LET st == s.stat
        ab == Get(st, "atBats", 0)
    IN  [Batter |-> s.player.fullName, Player_ID |-> s.player.id,
         HRs |-> Some(st.homeRuns), Games |-> Some(st.gamesPlayed),
         AVG |-> Some(st.avg), SLG |-> Some(st.slg),
         HRpct |-> Some(Round4(st.homeRuns, IF ab # 0 THEN ab ELSE 1)),
         AB |-> ab]

fetch_top50(r) ==
    IF RaisesForStatus(r) THEN Raise("HTTPError")
    ELSE IF StatsIndexError(r) THEN Raise("IndexError")
    ELSE IF \E i \in DOMAIN Splits(r) : ~(Top50Keys \subseteq DOMAIN Splits(r)[i].stat)
    THEN Raise("KeyError")
    ELSE Ok(DataFrame([i \in DOMAIN Splits(r) |-> Top50Row(Splits(r)[i])],
                      HitterColumns))

PitcherColumns ==
    <<"Pitcher", "Player_ID", "SO", "ERA", "Games", "IP", "Wins", "Losses">>
PitcherKeys ==
    {"strikeOuts", "era", "gamesPlayed", "inningsPitched", "wins", "losses"}

PitcherRow(s) ==
    [Pitcher |-> s.player.fullName, Player_ID |-> s.player.id,
     SO |-> s.stat.strikeOuts, ERA |-> s.stat.era, Games |-> s.stat.gamesPlayed,
     IP |-> s.stat.inningsPitched, Wins |-> s.stat.wins, Losses |-> s.stat.losses]

fetch_top50_pitchers(r) ==
    IF RaisesForStatus(r) THEN Raise("HTTPError")
    ELSE IF StatsIndexError(r) THEN Raise("IndexError")
    ELSE IF \E i \in DOMAIN Splits(r) : ~(PitcherKeys \subseteq DOMAIN Splits(r)[i].stat)
    THEN Raise("KeyError")
    ELSE Ok(DataFrame([i \in DOMAIN Splits(r) |-> PitcherRow(Splits(r)[i])],
                      PitcherColumns))

(***************************************************************************)
(* Barrel flag (a Series is a sequence; speeds and angles in tenths)       *)
(***************************************************************************)
Column(frame, c) == [i \in DOMAIN frame |-> frame[i][c]]

\* Series.fillna(v)
FillNa(series, v) ==
    [i \in DOMAIN series |-> IF series[i] = None THEN v ELSE series[i][1]]
\* series >= c
Ge(series, c) == [i \in DOMAIN series |-> series[i] >= c]
\* Series.between(lo, hi), inclusive on both ends
Between(series, lo, hi) ==
    [i \in DOMAIN series |-> lo <= series[i] /\ series[i] <= hi]
SeriesAnd(a, b) == [i \in DOMAIN a |-> a[i] /\ b[i]]
SeriesOr(a, b) == [i \in DOMAIN a |-> a[i] \/ b[i]]
\* Series.astype(int) of a boolean series
AsInt(a) == [i \in DOMAIN a |-> IF a[i] THEN 1 ELSE 0]

\* compute_barrel with the first band's lower angle bound exclusive.
compute_barrel_strict(df_sc0) ==
    LET speed == FillNa(Column(df_sc0, "launch_speed"), 0)
        angle == FillNa(Column(df_sc0, "launch_angle"), 0)
        cond1 == SeriesAnd(Ge(speed, 980), Between(angle, 261, 300))
        cond2 == SeriesAnd(Ge(speed, 1050), Between(angle, 190, 260))
        cond3 == SeriesAnd(Ge(speed, 1090), Between(angle, 130, 190))
    IN  AsInt(SeriesOr(SeriesOr(cond1, cond2), cond3))

\* hitters.compute_barrel
compute_barrel(df_sc0) ==
    LET speed == FillNa(Column(df_sc0, "launch_speed"), 0)
        angle == FillNa(Column(df_sc0, "launch_angle"), 0)
        cond1 == SeriesAnd(Ge(speed, 980), Between(angle, 260, 300))
        cond2 == SeriesAnd(Ge(speed, 1050), Between(angle, 190, 260))
        cond3 == SeriesAnd(Ge(speed, 1090), Between(angle, 130, 190))
    IN  AsInt(SeriesOr(SeriesOr(cond1, cond2), cond3))

\* The inline copy in fulldata.fetch_top75_and_enrich.
barrel_flag(sc0) ==
    LET sp == FillNa(Column(sc0, "launch_speed"), 0)
        ag == FillNa(Column(sc0, "launch_angle"), 0)
        cond1 == SeriesAnd(Ge(sp, 980), Between(ag, 260, 300))
        cond2 == SeriesAnd(Ge(sp, 1050), Between(ag, 190, 260))
        cond3 == SeriesAnd(Ge(sp, 1090), Between(ag, 130, 190))
    IN  AsInt(SeriesOr(SeriesOr(cond1, cond2), cond3))

(***************************************************************************)
(* Enrichment                                                              *)
(***************************************************************************)
\* The positions of the samples of one batter.
Group(sc0, id) == {i \in DOMAIN sc0 : sc0[i].batter = id}
Batters(sc0) == {sc0[i].batter : i \in DOMAIN sc0}

RECURSIVE SumOver(_, _)
SumOver(f, idx) ==
    IF idx = {} THEN 0
    ELSE LET i == CHOOSE j \in idx : TRUE IN f[i] + SumOver(f, idx \ {i})

\* A mean is kept as the fraction [sum, n]; NaN is None.
\* groupby(batter)[flag].mean(): one entry per batter with a sample.
GroupMean(sc0, values) ==
    [id \in Batters(sc0) |->
        Some([sum |-> SumOver(values, Group(sc0, id)),
              n |-> Cardinality(Group(sc0, id))])]

\* groupby(batter)["launch_speed"].mean(): missing speeds are skipped, and a
\* batter whose speeds are all missing has the mean NaN.
GroupMeanSkipNa(sc0, c) ==
    [id \in Batters(sc0) |->
        LET idx == {i \in Group(sc0, id) : sc0[i][c] # None}
        IN  IF idx = {} THEN None
            ELSE Some([sum |-> SumOver([i \in DOMAIN sc0 |->
                                          IF sc0[i][c] = None THEN 0 ELSE sc0[i][c][1]],
                                       idx),
                       n |-> Cardinality(idx)])]

\* Series.map(mapper): the mapped value, NaN for a key the mapper lacks.
MapSeries(series, mapper) ==
    [i \in DOMAIN series |->
        IF series[i] \in DOMAIN mapper THEN mapper[series[i]] ELSE None]

\* df[col] raises KeyError when the frame has no such column.
HasColumn(df, c) == \E i \in DOMAIN df.columns : df.columns[i] = c

\* df["Barrel%"] = df["Player_ID"].map(barrel_map), and the same for
\* Avg_Exit_Vel (the field Barrelpct is the column "Barrel%").
WithAggregates(df, barrel_map, ev_map) ==
    LET ids == Column(df.rows, "Player_ID")
        b == MapSeries(ids, barrel_map)
        e == MapSeries(ids, ev_map)
    IN  [columns |-> df.columns \o <<"Barrel%", "Avg_Exit_Vel">>,
         rows |-> [i \in DOMAIN df.rows |->
                     [k \in DOMAIN df.rows[i] \cup {"Barrelpct", "Avg_Exit_Vel"} |->
                        IF k = "Barrelpct" THEN b[i]
                        ELSE IF k = "Avg_Exit_Vel" THEN e[i]
                        ELSE df.rows[i][k]]]]

\* hitters.enrich_top50
enrich_top50(df_top50, sc0) ==
    LET flags == compute_barrel(sc0)
        barrel_map == GroupMean(sc0, flags)
        ev_map == GroupMeanSkipNa(sc0, "launch_speed")
    IN  IF ~HasColumn(df_top50, "Player_ID") THEN Raise("KeyError")
        ELSE Ok(WithAggregates(df_top50, barrel_map, ev_map))

\* Step 2 of fetch_top75_and_enrich.
EnrichTop75(df, sc0) ==
    LET flags == barrel_flag(sc0)
        barrel_map == GroupMean(sc0, flags)
        ev_map == GroupMeanSkipNa(sc0, "launch_speed")
    IN  IF ~HasColumn(df, "Player_ID") THEN Raise("KeyError")
        ELSE Ok(WithAggregates(df, barrel_map, ev_map))

fetch_top75_and_enrich(r, sc0) ==
    IF Top75Base(r).raised THEN Top75Base(r)
    ELSE EnrichTop75(Top75Base(r).df, sc0)

(***************************************************************************)
(* Event fetcher (day-range mode)                                          *)
(***************************************************************************)
HomerColumns == <<"Date", "Batter", "Exit_Vel", "Distance", "Pitch", "Pitcher">>

\* details.get("description") == "home_run", details being
\* ev.get("details", {}).get("type", {})
IsHomeRunEvent(ev) ==
    LET details == Get(Get(ev, "details", EmptyDict), "type", EmptyDict)
    IN  "description" \in DOMAIN details /\ details.description = "home_run"

\* The loop over play.get("playEvents", []): the hit data of the first
\* sub-event described as a home run (then break), {} when it has none or no
\* sub-event matches.
RECURSIVE HitDataOf(_)
HitDataOf(events) ==
    IF events = <<>> THEN EmptyDict
    ELSE IF IsHomeRunEvent(Head(events))
         THEN Get(Head(events), "hitData", EmptyDict)
         ELSE HitDataOf(Tail(events))

HomeRunRow(play, dstr) ==
    LET bat == play.matchup.batter
        pit == play.matchup.pitcher
        hd == HitDataOf(Get(play, "playEvents", <<>>))
    IN  [Date |-> dstr, Batter |-> GetOpt(bat, "fullName"),
         Exit_Vel |-> GetOpt(hd, "launchSpeed"),
         Distance |-> GetOpt(hd, "totalDistance"),
         Pitch |-> GetOpt(play.matchup, "pitchType"),
         Pitcher |-> GetOpt(pit, "fullName")]

\* The rows of one feed: the plays whose top-level event type is home_run.
RECURSIVE PlayRows(_, _)
PlayRows(plays, dstr) ==
    IF plays = <<>> THEN <<>>
    ELSE (IF Head(plays).result.eventType # "home_run" THEN <<>>
          ELSE <<HomeRunRow(Head(plays), dstr)>>)
         \o PlayRows(Tail(plays), dstr)

\* feed["liveData"]["plays"]["allPlays"] raises KeyError.
FeedKeyError(feed) ==
    ~ /\ "liveData" \in DOMAIN feed
      /\ "plays" \in DOMAIN feed.liveData
      /\ "allPlays" \in DOMAIN feed.liveData.plays

\* Only the first game of the date.
GamePks_first_only(games0) ==
    IF games0 = <<>> THEN <<>> ELSE <<games0[1].gamePk>>

\* gamePks = [g["gamePk"] for g in sched[0]["games"]]
GamePks(games0) == [i \in DOMAIN games0 |-> games0[i].gamePk]

RECURSIVE GameRows(_, _, _)
GameRows(gamePks, feeds0, dstr) ==
    IF gamePks = <<>> THEN <<>>
    ELSE PlayRows(feeds0[Head(gamePks)].liveData.plays.allPlays, dstr)
         \o GameRows(Tail(gamePks), feeds0, dstr)

\* fetch_daily_homers_for(dstr) against the responses w = [sched, feeds].
fetch_daily_homers_for(w, dstr) ==
    LET dates == Get(w.sched, "dates", <<>>)
    IN  IF dates = <<>> THEN Ok(DataFrame(<<>>, <<>>))
        ELSE IF "games" \notin DOMAIN dates[1] THEN Raise("KeyError")
        ELSE LET gamePks == GamePks(dates[1].games)
             IN  IF \E i \in DOMAIN gamePks : FeedKeyError(w.feeds[gamePks[i]])
                 THEN Raise("KeyError")
                 ELSE Ok(DataFrame(GameRows(gamePks, w.feeds, dstr), HomerColumns))

(***************************************************************************)
(* Dates                                                                   *)
(***************************************************************************)
IsLeap(y) == (y % 4 = 0 /\ y % 100 # 0) \/ y % 400 = 0
DaysInMonth(y, m) ==
    IF m = 2 THEN (IF IsLeap(y) THEN 29 ELSE 28)
    ELSE IF m \in {4, 6, 9, 11} THEN 30 ELSE 31

\* d + timedelta(days=1)
NextDay(d) ==
    IF d.d < DaysInMonth(d.y, d.m) THEN [d EXCEPT !.d = @ + 1]
    ELSE IF d.m < 12 THEN [d EXCEPT !.m = @ + 1, !.d = 1]
    ELSE [y |-> d.y + 1, m |-> 1, d |-> 1]

RECURSIVE AddDays(_, _)
AddDays(d, n) == IF n = 0 THEN d ELSE AddDays(NextDay(d), n - 1)

\* a <= b on dates
DateLE(a, b) ==
    \/ a.y < b.y
    \/ a.y = b.y /\ a.m < b.m
    \/ a.y = b.y /\ a.m = b.m /\ a.d <= b.d

Pad2(n) == IF n < 10 THEN "0" \o ToString(n) ELSE ToString(n)
\* d.strftime("%Y-%m-%d")
strftime(d) == ToString(d.y) \o "-" \o Pad2(d.m) \o "-" \o Pad2(d.d)

(***************************************************************************)
(* soft_matchups                                                           *)
(***************************************************************************)
\* fetch_schedule(): today's games, [] when the response has no date grouping.
fetch_schedule(r) ==
    LET dates == Get(r.body, "dates", <<>>)
    IN  IF dates = <<>> THEN <<>> ELSE Get(dates[1], "games", <<>>)

\* float(s) on the ERA strings the endpoint serves, in hundredths; None
\* stands for the ValueError on a string that is no number.
FloatOf(s) ==
    CASE s = "2.10" -> Some(210)
      [] s = "3.50" -> Some(350)
      [] s = "4.80" -> Some(480)
      [] OTHER -> None

PersonOk(body) == [status |-> 200, body |-> body]
PersonWithEra(era) ==
    PersonOk([people |-> <<[stats |-> <<[splits |-> <<[stat |-> [era |-> era]]>>]>>]>>])

\* The per-pitcher endpoint: what it answers for each pitcher id.
PeopleResponse(pid) ==
    CASE pid = 11 -> PersonOk(EmptyDict)
      [] pid = 12 -> PersonOk([people |-> <<EmptyDict>>])
      [] pid = 13 -> PersonOk([people |-> <<[stats |-> <<EmptyDict>>]>>])
      [] pid = 14 -> PersonOk([people |-> <<[stats |-> <<[splits |-> <<EmptyDict>>]>>]>>])
      [] pid = 15 -> PersonWithEra("-.--")
      [] pid = 16 -> PersonWithEra("3.50")
      [] pid = 17 -> PersonWithEra("4.80")
      [] pid = 18 -> PersonWithEra("2.10")
      [] OTHER -> [status |-> 500, body |-> EmptyDict]

EraOk(era) == [raised |-> FALSE, era |-> era]

\* fetch_pitcher_era(pid), pid being None or Some(id).
fetch_pitcher_era(pid) ==
    IF pid = None THEN EraOk(None)
    ELSE LET r == PeopleResponse(pid[1])
             people == Get(r.body, "people", <<>>)
             stats == IF people = <<>> THEN <<>> ELSE Get(people[1], "stats", <<>>)
             splits == IF stats = <<>> THEN <<>> ELSE Get(stats[1], "splits", <<>>)
             stat == IF splits = <<>> THEN EmptyDict
                     ELSE Get(splits[1], "stat", EmptyDict)
         IN  IF RaisesForStatus(r) THEN [raised |-> TRUE, era |-> None]
             ELSE IF people = <<>> \/ stats = <<>> \/ splits = <<>> THEN EraOk(None)
             ELSE IF "era" \notin DOMAIN stat THEN EraOk(None)
             ELSE EraOk(FloatOf(stat.era))

\* max(eras) over the known ERAs, None when there is none.
Softness(home_era, away_era) ==
    IF home_era = None /\ away_era = None THEN None
    ELSE IF home_era = None THEN away_era
    ELSE IF away_era = None THEN home_era
    ELSE IF home_era[1] >= away_era[1] THEN home_era ELSE away_era

MatchupRow(g) ==
    LET home_pitcher == Get(g.teams.home, "probablePitcher", EmptyDict)
        away_pitcher == Get(g.teams.away, "probablePitcher", EmptyDict)
        home_era == fetch_pitcher_era(GetOpt(home_pitcher, "id")).era
        away_era == fetch_pitcher_era(GetOpt(away_pitcher, "id")).era
    IN  [Away |-> g.teams.away.team.name, Home |-> g.teams.home.team.name,
         Away_Starter |-> Get(away_pitcher, "fullName", ""),
         Away_ERA |-> away_era,
         Home_Starter |-> Get(home_pitcher, "fullName", ""),
         Home_ERA |-> home_era,
         Softness |-> Softness(home_era, away_era)]

MatchupRaises(g) ==
    \/ fetch_pitcher_era(GetOpt(Get(g.teams.home, "probablePitcher", EmptyDict), "id")).raised
    \/ fetch_pitcher_era(GetOpt(Get(g.teams.away, "probablePitcher", EmptyDict), "id")).raised

Reverse(q) == [i \in DOMAIN q |-> q[Len(q) + 1 - i]]

\* A stable ascending insertion sort of rows by an integer key.
RECURSIVE InsertByKey(_, _, _)
InsertByKey(sorted, row, c) ==
    IF sorted = <<>> THEN <<row>>
    ELSE IF row[c][1] < sorted[Len(sorted)][c][1]
         THEN Append(InsertByKey(SubSeq(sorted, 1, Len(sorted) - 1), row, c),
                     sorted[Len(sorted)])
         ELSE Append(sorted, row)
RECURSIVE ArgSort(_, _)
ArgSort(q, c) ==
    IF q = <<>> THEN <<>>
    ELSE InsertByKey(ArgSort(SubSeq(q, 1, Len(q) - 1), c), q[Len(q)], c)

\* The rows whose column c holds a value, and those where it is NaN, each in
\* their original order.
RECURSIVE RowsWithKey(_, _)
RowsWithKey(rows, c) ==
    IF rows = <<>> THEN <<>>
    ELSE (IF Head(rows)[c] # None THEN <<Head(rows)>> ELSE <<>>)
         \o RowsWithKey(Tail(rows), c)
RECURSIVE RowsWithoutKey(_, _)
RowsWithoutKey(rows, c) ==
    IF rows = <<>> THEN <<>>
    ELSE (IF Head(rows)[c] = None THEN <<Head(rows)>> ELSE <<>>)
         \o RowsWithoutKey(Tail(rows), c)

\* sort_values(c) with the default ascending=True.
sort_values_ascending(rows, c) ==
    ArgSort(RowsWithKey(rows, c), c) \o RowsWithoutKey(rows, c)

\* df.sort_values(c, ascending=False): the rows with a key are reversed,
\* sorted ascending and reversed again; the rows without one are put last
\* (na_position="last").
sort_values_descending(rows, c) ==
    Reverse(ArgSort(Reverse(RowsWithKey(rows, c)), c)) \o RowsWithoutKey(rows, c)

\* soft_matchups.main: what it prints.
soft_main(r) ==
    LET games0 == fetch_schedule(r)
    IN  IF RaisesForStatus(r) \/ \E i \in DOMAIN games0 : MatchupRaises(games0[i])
        THEN [ran |-> TRUE, raised |-> TRUE, message |-> "", rows |-> <<>>]
        ELSE IF games0 = <<>>
        THEN [ran |-> TRUE, raised |-> FALSE,
              message |-> "No games found for today.", rows |-> <<>>]
        ELSE [ran |-> TRUE, raised |-> FALSE, message |-> "",
              rows |-> sort_values_descending(
                           [i \in DOMAIN games0 |-> MatchupRow(games0[i])],
                           "Softness")]

(***************************************************************************)
(* Report writer                                                           *)
(***************************************************************************)
Absent == [exists |-> FALSE, zip |-> FALSE, sheets |-> <<>>]
NotAZip == [exists |-> TRUE, zip |-> FALSE, sheets |-> <<>>]
Book(sheets) == [exists |-> TRUE, zip |-> TRUE, sheets |-> sheets]

SheetNames(sheets) == {sheets[i].name : i \in DOMAIN sheets}
SheetIndex(sheets, name) == CHOOSE i \in DOMAIN sheets : sheets[i].name = name
SheetData(sheets, name) == sheets[SheetIndex(sheets, name)].data

\* to_excel without if_sheet_exists="replace": the sheet is appended and the
\* old sheet of the same name is not deleted, so names can repeat.
to_excel_no_replace(sheets, df, sheet_name) ==
    Append(sheets, [name |-> sheet_name, data |-> df])

\* df.to_excel(writer, sheet_name=...) on an openpyxl writer opened with
\* if_sheet_exists="replace": an existing sheet of that name is deleted and a
\* new one created at its index; otherwise the sheet is appended.
to_excel(sheets, df, sheet_name) ==
    IF sheet_name \in SheetNames(sheets)
    THEN [sheets EXCEPT ![SheetIndex(sheets, sheet_name)] =
              [name |-> sheet_name, data |-> df]]
    ELSE Append(sheets, [name |-> sheet_name, data |-> df])

NoCall ==
    [fn |-> "none", mode |-> "-", handed |-> <<>>, touched |-> {},
     reported |-> {}, skipped |-> {}, replaced |-> {}, raised |-> FALSE]

\* write_sheet that ignores its mode and always creates the workbook afresh.
write_sheet_truncating(book, df, name, mode) ==
    [wb |-> Book(to_excel(<<>>, df, name)),
     call |-> [fn |-> "write_sheet", mode |-> mode,
               handed |-> <<[name |-> name, data |-> df]>>,
               touched |-> {name}, reported |-> {}, skipped |-> {},
               replaced |-> {}, raised |-> FALSE]]

\* fulldata.write_sheet(df, name, mode) on the file `book`: the file it leaves
\* and the record of the call.  Mode "a" opens the existing file:
\* FileNotFoundError when there is none, BadZipFile when it is no workbook.
write_sheet(book, df, name, mode) ==
    LET call == [fn |-> "write_sheet", mode |-> mode,
                 handed |-> <<[name |-> name, data |-> df]>>,
                 touched |-> {name}, reported |-> {}, skipped |-> {},
                 replaced |-> IF mode = "a" THEN {name} \cap SheetNames(book.sheets)
                              ELSE {},
                 raised |-> FALSE]
    IN  IF mode = "w"
        THEN [wb |-> Book(to_excel(<<>>, df, name)), call |-> call]
        ELSE IF book.exists /\ book.zip
             THEN [wb |-> Book(to_excel(book.sheets, df, name)), call |-> call]
             ELSE [wb |-> book,
                   call |-> [call EXCEPT !.touched = {}, !.replaced = {},
                                         !.raised = TRUE]]

\* The sheets write_sheets hands to the writer, in order: the daily and the
\* top-50 table always, the pitchers when given, the matchups when given and
\* not empty.
SheetsToWrite(df_daily, df_top50_enriched, date_str, df_pitchers, df_matchups) ==
    <<[name |-> date_str \o "_HR_Hitters", data |-> df_daily],
      [name |-> date_str \o "_Top_HR_Batters", data |-> df_top50_enriched]>>
    \o (IF df_pitchers # None
        THEN <<[name |-> date_str \o "_Top_Pitchers", data |-> df_pitchers[1]]>>
        ELSE <<>>)
    \o (IF df_matchups # None /\ ~Empty(df_matchups[1])
        THEN <<[name |-> date_str \o "_Matchups", data |-> df_matchups[1]]>>
        ELSE <<>>)

\* The tables write_sheets was handed, written or not.
SheetsHanded(df_daily, df_top50_enriched, date_str, df_pitchers, df_matchups) ==
    <<[name |-> date_str \o "_HR_Hitters", data |-> df_daily],
      [name |-> date_str \o "_Top_HR_Batters", data |-> df_top50_enriched]>>
    \o (IF df_pitchers # None
        THEN <<[name |-> date_str \o "_Top_Pitchers", data |-> df_pitchers[1]]>>
        ELSE <<>>)
    \o (IF df_matchups # None
        THEN <<[name |-> date_str \o "_Matchups", data |-> df_matchups[1]]>>
        ELSE <<>>)

\* The names the closing print of write_sheets reports as written.
SheetsReported(date_str, df_pitchers, df_matchups) ==
    {date_str \o "_HR_Hitters", date_str \o "_Top_HR_Batters"}
    \cup (IF df_pitchers # None THEN {date_str \o "_Top_Pitchers"} ELSE {})
    \cup (IF df_matchups # None THEN {date_str \o "_Matchups"} ELSE {})

RECURSIVE WriteAll(_, _)
WriteAll(sheets, todo) ==
    IF todo = <<>> THEN sheets
    ELSE WriteAll(to_excel(sheets, todo[1].data, todo[1].name), Tail(todo))

\* hitters.write_sheets: a file that is no zip archive is unlinked first; the
\* mode is append-with-replace when the file (still) exists, create otherwise.
write_sheets(df_daily, df_top50_enriched, date_str, df_pitchers, df_matchups) ==
    LET exists == wb.exists /\ wb.zip
        mode == IF exists THEN "a" ELSE "w"
        todo == SheetsToWrite(df_daily, df_top50_enriched, date_str,
                              df_pitchers, df_matchups)
    IN  /\ wb' = Book(WriteAll(IF exists THEN wb.sheets ELSE <<>>, todo))
        /\ lastCall' =
             [fn |-> "write_sheets", mode |-> mode,
              handed |-> SheetsHanded(df_daily, df_top50_enriched, date_str,
                                      df_pitchers, df_matchups),
              touched |-> SheetNames(todo),
              reported |-> SheetsReported(date_str, df_pitchers, df_matchups),
              skipped |-> {},
              replaced |-> IF exists THEN SheetNames(todo) \cap SheetNames(wb.sheets)
                           ELSE {},
              raised |-> FALSE]

(***************************************************************************)
(* Idle values of the variables a specification does not use               *)
(***************************************************************************)
NoResult == [fn |-> "none", board |-> Raise(""), out |-> Raise("")]
NotComputed == [computed |-> FALSE, hitters |-> <<>>, fulldata |-> <<>>]
NoResponse == [group |-> "hitting", status |-> 200, body |-> EmptyDict]

ReportIdle == wb = Absent /\ lastCall = NoCall /\ nCalls = 0
LeaderIdle == resp = NoResponse /\ sc = <<>> /\ result = NoResult
BarrelIdle == df_sc = <<>> /\ barrel = NotComputed

NotFetched == [fetched |-> FALSE, out |-> Raise("")]
NoWorld == [fetched |-> FALSE, sched |-> EmptyDict, feeds |-> <<>>]
EventIdle == sched = EmptyDict /\ feeds = <<>> /\ homers = NotFetched
NotRun == [ran |-> FALSE, raised |-> FALSE, message |-> "", rows |-> <<>>]
SoftIdle == softSched = [status |-> 200, body |-> EmptyDict] /\ table = NotRun
MainIdle ==
    /\ pc = "idle"
    /\ today = [y |-> 2025, m |-> 3, d |-> 28]
    /\ top75 = [columns |-> <<>>, rows |-> <<>>]
    /\ world = NoWorld
    /\ visited = <<>>

(***************************************************************************)
(* The leaderboard pipelines against a changing upstream                   *)
(***************************************************************************)
MaxSplits == 2
MaxBattedBalls == 2

Player(id, name) == [id |-> id, fullName |-> name]
HittingSplits ==
    { [player |-> Player(1, "A"),
       stat |-> [homeRuns |-> 50, atBats |-> 200, gamesPlayed |-> 60,
                 avg |-> ".300", slg |-> ".600"]],
      [player |-> Player(2, "B"),
       stat |-> [homeRuns |-> 0, atBats |-> 0, gamesPlayed |-> 1,
                 avg |-> ".000", slg |-> ".000"]],
      [player |-> Player(3, "C"),
       stat |-> [homeRuns |-> 2, atBats |-> 3, gamesPlayed |-> 1,
                 avg |-> ".667", slg |-> "2.667"]],
      [player |-> Player(4, "D"),
       stat |-> [homeRuns |-> 0, gamesPlayed |-> 1,
                 avg |-> ".000", slg |-> ".000"]] }
PitchingSplits ==
    { [player |-> Player(6, "P"),
       stat |-> [strikeOuts |-> 100, era |-> "3.50", gamesPlayed |-> 14,
                 inningsPitched |-> "80.1", wins |-> 7, losses |-> 3]],
      [player |-> Player(7, "Q"),
       stat |-> [strikeOuts |-> 90, era |-> "4.80", gamesPlayed |-> 13,
                 inningsPitched |-> "70.0", wins |-> 4, losses |-> 6]] }

\* Batted balls: batter 1 and 2 are on the board above, batter 9 is not.
Sample(b, speed, angle) ==
    [batter |-> b, launch_speed |-> speed, launch_angle |-> angle]
BattedBalls ==
    { Sample(1, Some(1000), Some(280)), Sample(1, None, None),
      Sample(2, Some(1100), Some(100)), Sample(3, None, Some(280)),
      Sample(9, Some(1000), Some(280)) }

ResponseBodies ==
    { EmptyDict, [stats |-> <<>>], [stats |-> <<EmptyDict>>],
      [stats |-> <<[splits |-> <<>>]>>] }

InitLeaderboard ==
    /\ resp \in [group : {"hitting", "pitching"}, status : {200, 500},
                  body : ResponseBodies]
    /\ sc = <<>>
    /\ result = NoResult
    /\ ReportIdle /\ BarrelIdle /\ EventIdle /\ MainIdle /\ SoftIdle

\* The upstream leaderboard gains a player.
UpstreamAddSplit ==
    /\ "stats" \in DOMAIN resp.body
    /\ resp.body.stats # <<>>
    /\ "splits" \in DOMAIN resp.body.stats[1]
    /\ Len(resp.body.stats[1].splits) < MaxSplits
    /\ \E s \in (IF resp.group = "hitting" THEN HittingSplits ELSE PitchingSplits) :
          resp' = [resp EXCEPT !.body.stats[1].splits = Append(@, s)]
    /\ result' = NoResult
    /\ UNCHANGED <<sc, reportVars, barrelVars, eventVars, mainVars, softVars>>

\* A ball is put in play and recorded by the pitch-tracking source.
BattedBall ==
    /\ Len(sc) < MaxBattedBalls
    /\ \E b \in BattedBalls : sc' = Append(sc, b)
    /\ result' = NoResult
    /\ UNCHANGED <<resp, reportVars, barrelVars, eventVars, mainVars, softVars>>

\* fulldata: top75 = fetch_top75_and_enrich()
RunTop75 ==
    /\ resp.group = "hitting"
    /\ result' = [fn |-> "fetch_top75_and_enrich", board |-> Top75Base(resp),
                  out |-> fetch_top75_and_enrich(resp, sc)]
    /\ UNCHANGED <<resp, sc, reportVars, barrelVars, eventVars, mainVars, softVars>>

\* hitters: top50_df = fetch_top50(); enriched = enrich_top50(top50_df)
RunTop50 ==
    /\ resp.group = "hitting"
    /\ result' = [fn |-> "fetch_top50", board |-> fetch_top50(resp),
                  out |-> IF fetch_top50(resp).raised THEN fetch_top50(resp)
                          ELSE enrich_top50(fetch_top50(resp).df, sc)]
    /\ UNCHANGED <<resp, sc, reportVars, barrelVars, eventVars, mainVars, softVars>>

\* hitters: pitchers_df = fetch_top50_pitchers()
RunTop50Pitchers ==
    /\ resp.group = "pitching"
    /\ result' = [fn |-> "fetch_top50_pitchers", board |-> fetch_top50_pitchers(resp),
                  out |-> fetch_top50_pitchers(resp)]
    /\ UNCHANGED <<resp, sc, reportVars, barrelVars, eventVars, mainVars, softVars>>

NextLeaderboard ==
    UpstreamAddSplit \/ BattedBall \/ RunTop75 \/ RunTop50 \/ RunTop50Pitchers

SpecLeaderboard == InitLeaderboard /\ [][NextLeaderboard]_vars

(***************************************************************************)
(* The barrel classification over batted-ball frames                       *)
(***************************************************************************)
MaxSamples == 2

Speeds == {None, Some(979), Some(980), Some(1000), Some(1049), Some(1050),
           Some(1089), Some(1090)}
Angles == {None, Some(-50), Some(100), Some(129), Some(130), Some(190),
           Some(260), Some(280), Some(300), Some(301)}

InitBarrel ==
    /\ df_sc = <<>>
    /\ barrel = NotComputed
    /\ ReportIdle /\ LeaderIdle /\ EventIdle /\ MainIdle /\ SoftIdle

\* statcast() returns one more row.
AddSample ==
    /\ Len(df_sc) < MaxSamples
    /\ \E speed \in Speeds, angle \in Angles :
          df_sc' = Append(df_sc, Sample(1, speed, angle))
    /\ barrel' = NotComputed
    /\ UNCHANGED <<reportVars, leaderVars, eventVars, mainVars, softVars>>

\* sc["barrel_flag"] = compute_barrel(sc), and fulldata's inline copy.
ComputeBarrel ==
    /\ barrel' = [computed |-> TRUE, hitters |-> compute_barrel(df_sc),
                  fulldata |-> barrel_flag(df_sc)]
    /\ UNCHANGED <<df_sc, reportVars, leaderVars, eventVars, mainVars, softVars>>

NextBarrel == AddSample \/ ComputeBarrel

SpecBarrel == InitBarrel /\ [][NextBarrel]_vars

(***************************************************************************)
(* The report writer driven by arbitrary callers                           *)
(***************************************************************************)
MaxWrites == 3

TableA == DataFrame(<<[Batter |-> Some("a")]>>, <<"Batter">>)
TableB == DataFrame(<<[Batter |-> Some("a")], [Batter |-> Some("b")]>>, <<"Batter">>)
NoRows == DataFrame(<<>>, <<"Batter">>)
ReportTables == {NoRows, TableA, TableB}

InitReport ==
    /\ wb \in {Absent, NotAZip}
    /\ lastCall = NoCall
    /\ nCalls = 0
    /\ LeaderIdle /\ BarrelIdle /\ EventIdle /\ MainIdle /\ SoftIdle

CallWriteSheet ==
    /\ nCalls < MaxWrites
    /\ nCalls' = nCalls + 1
    /\ \E df \in ReportTables, name \in {"S", "T"}, mode \in {"w", "a"} :
          /\ wb' = write_sheet(wb, df, name, mode).wb
          /\ lastCall' = write_sheet(wb, df, name, mode).call
    /\ UNCHANGED <<leaderVars, barrelVars, eventVars, mainVars, softVars>>

CallWriteSheets ==
    /\ nCalls < MaxWrites
    /\ nCalls' = nCalls + 1
    /\ \E df_daily \in ReportTables, df_top50 \in {TableA, TableB},
          df_pitchers \in {None, Some(NoRows), Some(TableA)},
          df_matchups \in {None, Some(NoRows), Some(TableB)} :
          write_sheets(df_daily, df_top50, "2025-06-10", df_pitchers, df_matchups)
    /\ UNCHANGED <<leaderVars, barrelVars, eventVars, mainVars, softVars>>

NextReport == CallWriteSheet \/ CallWriteSheets

SpecReport == InitReport /\ [][NextReport]_vars

(***************************************************************************)
(* The day-range event fetch against a day's schedule and live feeds       *)
(***************************************************************************)
MaxGames == 2
MaxPlays == 3

Matchup(batter, pitcher) ==
    [batter |-> [fullName |-> batter], pitcher |-> [fullName |-> pitcher]]
HomeRunEvent(speed, distance) ==
    [details |-> [type |-> [description |-> "home_run"]],
     hitData |-> [launchSpeed |-> speed, totalDistance |-> distance]]
PitchEvent == [details |-> [type |-> [description |-> "Four-Seam Fastball"]]]

\* A single; a home run with no sub-events; with no sub-event described as a
\* home run; with two, after a pitch; with one that carries no hit data; with
\* one whose hit data lacks the distance.
PlayKinds ==
    { [result |-> [eventType |-> "single"], matchup |-> Matchup("A", "P")],
      [result |-> [eventType |-> "home_run"], matchup |-> Matchup("B", "P")],
      [result |-> [eventType |-> "home_run"], matchup |-> Matchup("C", "P"),
       playEvents |-> <<PitchEvent>>],
      [result |-> [eventType |-> "home_run"], matchup |-> Matchup("D", "Q"),
       playEvents |-> <<PitchEvent, HomeRunEvent(1034, 412), HomeRunEvent(990, 380)>>],
      [result |-> [eventType |-> "home_run"], matchup |-> Matchup("E", "Q"),
       playEvents |-> <<[details |-> [type |-> [description |-> "home_run"]]]>>],
      [result |-> [eventType |-> "home_run"],
       matchup |-> [batter |-> [fullName |-> "F"], pitcher |-> EmptyDict,
                    pitchType |-> "FF"],
       playEvents |-> <<[details |-> [type |-> [description |-> "home_run"]],
                        hitData |-> [launchSpeed |-> 1101]]>>] }

PreGameFeed == [liveData |-> [plays |-> EmptyDict]]
LiveFeed(plays) == [liveData |-> [plays |-> [allPlays |-> plays]]]
AllPlays(feed) == Get(Get(Get(feed, "liveData", EmptyDict), "plays", EmptyDict),
                      "allPlays", <<>>)

EventDate == "2025-03-28"

InitEvent ==
    /\ sched \in {EmptyDict, [dates |-> <<>>], [dates |-> <<EmptyDict>>],
                   [dates |-> <<[games |-> <<>>]>>]}
    /\ feeds = <<>>
    /\ homers = NotFetched
    /\ ReportIdle /\ LeaderIdle /\ BarrelIdle /\ MainIdle /\ SoftIdle

\* A game is put on the date's schedule; its feed has no plays list yet, or
\* an empty one.
ScheduleGame ==
    /\ "dates" \in DOMAIN sched
    /\ sched.dates # <<>>
    /\ "games" \in DOMAIN sched.dates[1]
    /\ Len(sched.dates[1].games) < MaxGames
    /\ sched' = [sched EXCEPT !.dates[1].games =
                     Append(@, [gamePk |-> Len(@) + 1])]
    /\ \E feed \in {PreGameFeed, LiveFeed(<<>>)} : feeds' = Append(feeds, feed)
    /\ homers' = NotFetched
    /\ UNCHANGED <<reportVars, leaderVars, barrelVars, mainVars, softVars>>

RECURSIVE TotalPlays(_)
TotalPlays(fs) ==
    IF fs = <<>> THEN 0 ELSE Len(AllPlays(Head(fs))) + TotalPlays(Tail(fs))

\* A play ends in one of the date's games.
PlayHappens ==
    /\ TotalPlays(feeds) < MaxPlays
    /\ \E pk \in DOMAIN feeds, play \in PlayKinds :
          feeds' = [feeds EXCEPT ![pk] = LiveFeed(Append(AllPlays(@), play))]
    /\ homers' = NotFetched
    /\ UNCHANGED <<sched, reportVars, leaderVars, barrelVars, mainVars, softVars>>

\* df = fetch_daily_homers_for(dstr)
FetchDailyHomers ==
    /\ homers' = [fetched |-> TRUE,
                  out |-> fetch_daily_homers_for([sched |-> sched, feeds |-> feeds],
                                                 EventDate)]
    /\ UNCHANGED <<sched, feeds, reportVars, leaderVars, barrelVars, mainVars, softVars>>

NextEvent == ScheduleGame \/ PlayHappens \/ FetchDailyHomers

SpecEvent == InitEvent /\ [][NextEvent]_vars

(***************************************************************************)
(* fulldata.main: the season-reset run                                     *)
(***************************************************************************)
\* The days of the window.  The source's window, 2025-03-28 to 2025-06-11, is
\* 76 days; the model's window starts on the same day and is NumDays long.
NumDays == 5
START_DATE == [y |-> 2025, m |-> 3, d |-> 28]
END_DATE == AddDays(START_DATE, NumDays - 1)

TopSheet == "data_Top_HR_Batters"
DaySheet(d) == strftime(d) \o "_HR_Hitters"

OldTable == DataFrame(<<[Batter |-> Some("old")]>>, <<"Batter">>)
PriorWorkbooks ==
    { Absent, NotAZip,
      Book(<<[name |-> "Notes", data |-> OldTable],
             [name |-> TopSheet, data |-> OldTable],
             [name |-> DaySheet(START_DATE), data |-> OldTable]>>) }

\* What the leaderboard endpoint and statcast() may answer the run.
LeaderWorlds ==
    { [resp |-> [group |-> "hitting", status |-> 500, body |-> EmptyDict], sc |-> <<>>],
      [resp |-> [group |-> "hitting", status |-> 200, body |-> EmptyDict], sc |-> <<>>],
      [resp |-> [group |-> "hitting", status |-> 200,
                 body |-> [stats |-> <<[splits |-> <<>>]>>]], sc |-> <<>>],
      [resp |-> [group |-> "hitting", status |-> 200,
                 body |-> [stats |-> <<[splits |->
                     <<CHOOSE s \in HittingSplits : s.player.id = 1>>]>>]],
       sc |-> <<Sample(1, Some(1000), Some(280))>>],
      [resp |-> [group |-> "hitting", status |-> 200,
                 body |-> [stats |-> <<[splits |->
                     <<CHOOSE s \in HittingSplits : s.player.id = 2>>]>>]],
       sc |-> <<>>] }

PlayBy(b) == CHOOSE p \in PlayKinds : p.matchup.batter.fullName = b
Games(n) == [i \in 1..n |-> [gamePk |-> i]]

\* What the schedule and feed endpoints may answer for one day.
DayWorlds ==
    { [fetched |-> TRUE, sched |-> EmptyDict, feeds |-> <<>>],
      [fetched |-> TRUE, sched |-> [dates |-> <<EmptyDict>>], feeds |-> <<>>],
      [fetched |-> TRUE, sched |-> [dates |-> <<[games |-> <<>>]>>], feeds |-> <<>>],
      [fetched |-> TRUE, sched |-> [dates |-> <<[games |-> Games(1)]>>],
       feeds |-> <<PreGameFeed>>],
      [fetched |-> TRUE, sched |-> [dates |-> <<[games |-> Games(1)]>>],
       feeds |-> <<LiveFeed(<<PlayBy("A")>>)>>],
      [fetched |-> TRUE, sched |-> [dates |-> <<[games |-> Games(1)]>>],
       feeds |-> <<LiveFeed(<<PlayBy("D")>>)>>],
      [fetched |-> TRUE, sched |-> [dates |-> <<[games |-> Games(2)]>>],
       feeds |-> <<LiveFeed(<<PlayBy("D")>>), LiveFeed(<<PlayBy("A"), PlayBy("B")>>)>>] }

InitMain ==
    /\ wb \in PriorWorkbooks
    /\ lastCall = NoCall
    /\ nCalls = 0
    /\ pc = "fetch_top75"
    /\ today = START_DATE
    /\ top75 = [columns |-> <<>>, rows |-> <<>>]
    /\ world = NoWorld
    /\ visited = <<>>
    /\ LeaderIdle /\ BarrelIdle /\ EventIdle /\ SoftIdle

\* top75 = fetch_top75_and_enrich(); an exception ends the run.
MainFetchTop75 ==
    /\ pc = "fetch_top75"
    /\ \E lw \in LeaderWorlds :
          LET r == fetch_top75_and_enrich(lw.resp, lw.sc)
          IN  IF r.raised
              THEN pc' = "raised" /\ top75' = top75
              ELSE pc' = "unlink" /\ top75' = r.df
    /\ UNCHANGED <<today, world, visited, reportVars, leaderVars, barrelVars,
                   eventVars, softVars>>

\* if WORKBOOK.exists(): WORKBOOK.unlink()
MainUnlink ==
    /\ pc = "unlink"
    /\ wb' = IF wb.exists THEN Absent ELSE wb
    /\ pc' = "write_top75"
    /\ UNCHANGED <<lastCall, nCalls, today, top75, world, visited, leaderVars,
                   barrelVars, eventVars, softVars>>

\* write_sheet(top75, "data_Top_HR_Batters", mode="w"), the print, and
\* today = START_DATE
MainWriteTop75 ==
    /\ pc = "write_top75"
    /\ LET w == write_sheet(wb, top75, TopSheet, "w")
       IN  /\ wb' = w.wb
           /\ lastCall' = [w.call EXCEPT !.fn = "main", !.reported = {TopSheet}]
    /\ nCalls' = nCalls + 1
    /\ today' = START_DATE
    /\ pc' = "loop"
    /\ UNCHANGED <<top75, world, visited, leaderVars, barrelVars, eventVars, softVars>>

\* One iteration of the loop: fetch the day, skip it with a notice when the
\* table is empty and write its sheet in append mode otherwise, step to the
\* next day.  An exception in the fetch or the write ends the run.
MainDay ==
    /\ pc = "loop"
    /\ DateLE(today, END_DATE)
    /\ \E w \in DayWorlds :
          LET dstr == strftime(today)
              r == fetch_daily_homers_for(w, dstr)
              name == dstr \o "_HR_Hitters"
              wr == write_sheet(wb, r.df, name, "a")
          IN  /\ world' = w
              /\ IF r.raised
                 THEN /\ pc' = "raised"
                      /\ UNCHANGED <<wb, lastCall, nCalls, today, visited>>
                 ELSE IF Empty(r.df)
                 THEN /\ lastCall' = [NoCall EXCEPT !.fn = "main", !.mode = "a",
                                        !.handed = <<[name |-> name, data |-> r.df]>>,
                                        !.skipped = {name}]
                      /\ today' = NextDay(today)
                      /\ visited' = Append(visited, [date |-> today, rows |-> 0])
                      /\ UNCHANGED <<wb, nCalls, pc>>
                 ELSE IF wr.call.raised
                 THEN /\ pc' = "raised"
                      /\ lastCall' = [wr.call EXCEPT !.fn = "main"]
                      /\ UNCHANGED <<wb, nCalls, today, visited>>
                 ELSE /\ wb' = wr.wb
                      /\ lastCall' = [wr.call EXCEPT !.fn = "main",
                                                      !.reported = {name}]
                      /\ nCalls' = nCalls + 1
                      /\ today' = NextDay(today)
                      /\ visited' = Append(visited,
                                           [date |-> today, rows |-> Len(r.df.rows)])
                      /\ pc' = pc
    /\ UNCHANGED <<top75, leaderVars, barrelVars, eventVars, softVars>>

\* while today <= END_DATE fails: main returns.
MainReturn ==
    /\ pc = "loop"
    /\ ~DateLE(today, END_DATE)
    /\ pc' = "done"
    /\ UNCHANGED <<today, top75, world, visited, reportVars, leaderVars,
                   barrelVars, eventVars, softVars>>

NextMain == MainFetchTop75 \/ MainUnlink \/ MainWriteTop75 \/ MainDay \/ MainReturn

SpecMain == InitMain /\ [][NextMain]_vars

\* The interpreter runs the script to its end: no step of main waits forever.
SpecMainFair == SpecMain /\ WF_vars(NextMain)

(***************************************************************************)
(* soft_matchups against today's schedule                                  *)
(***************************************************************************)
MaxSoftGames == 3

\* The probable starters of a game, <<home, away>>; 0 is a starter not yet
\* announced, the others are ids of PeopleResponse.
StarterPairs ==
    { <<16, 17>>, <<17, 16>>, <<0, 17>>, <<16, 0>>, <<0, 0>>, <<11, 12>>,
      <<13, 14>>, <<15, 16>>, <<18, 15>>, <<19, 16>> }

Side(name, pid) ==
    IF pid = 0 THEN [team |-> [name |-> name]]
    ELSE [team |-> [name |-> name],
          probablePitcher |-> [id |-> pid, fullName |-> "P" \o ToString(pid)]]
Game(n, pair) ==
    [teams |-> [home |-> Side("H" \o ToString(n), pair[1]),
                away |-> Side("A" \o ToString(n), pair[2])]]

InitSoft ==
    /\ softSched \in [status : {200, 500},
                       body : {EmptyDict, [dates |-> <<EmptyDict>>],
                               [dates |-> <<[games |-> <<>>]>>]}]
    /\ table = NotRun
    /\ ReportIdle /\ LeaderIdle /\ BarrelIdle /\ EventIdle /\ MainIdle

\* A game is put on today's schedule.
AnnounceGame ==
    /\ "dates" \in DOMAIN softSched.body
    /\ "games" \in DOMAIN softSched.body.dates[1]
    /\ Len(softSched.body.dates[1].games) < MaxSoftGames
    /\ \E pair \in StarterPairs :
          softSched' = [softSched EXCEPT !.body.dates[1].games =
                           Append(@, Game(Len(@) + 1, pair))]
    /\ table' = NotRun
    /\ UNCHANGED <<reportVars, leaderVars, barrelVars, eventVars, mainVars>>

\* python soft_matchups.py
RunSoftMatchups ==
    /\ table' = soft_main(softSched)
    /\ UNCHANGED <<softSched, reportVars, leaderVars, barrelVars, eventVars, mainVars>>

NextSoft == AnnounceGame \/ RunSoftMatchups

SpecSoft == InitSoft /\ [][NextSoft]_vars

(***************************************************************************)
(* Report writer properties                                                *)
(***************************************************************************)
UniqueSheetNames ==
    \A i, j \in DOMAIN wb.sheets :
        wb.sheets[i].name = wb.sheets[j].name => i = j

HandedData(call, name) ==
    (CHOOSE h \in {call.handed[i] : i \in DOMAIN call.handed} : h.name = name).data

\* A completed writer call in create mode leaves exactly the sheets it wrote.
CreateStep ==
    (nCalls' # nCalls /\ ~lastCall'.raised /\ lastCall'.mode = "w")
    => /\ SheetNames(wb'.sheets) = lastCall'.touched
       /\ \A n \in lastCall'.touched :
              SheetData(wb'.sheets, n) = HandedData(lastCall', n)

\* A completed writer call in append mode adds or replaces the sheets it
\* wrote and leaves every other sheet's name and contents alone.
AppendStep ==
    (nCalls' # nCalls /\ ~lastCall'.raised /\ lastCall'.mode = "a")
    => /\ SheetNames(wb'.sheets) = SheetNames(wb.sheets) \cup lastCall'.touched
       /\ \A n \in lastCall'.touched :
              SheetData(wb'.sheets, n) = HandedData(lastCall', n)
       /\ \A n \in SheetNames(wb.sheets) \ lastCall'.touched :
              SheetData(wb'.sheets, n) = SheetData(wb.sheets, n)

\* C1: create mode yields exactly the written sheet(s); an append-mode write
\* adds the named sheet or replaces its contents, every other existing sheet
\* keeps its name and contents, and sheet names stay unique.
C1_ReportWriter ==
    /\ []UniqueSheetNames
    /\ [][CreateStep /\ AppendStep]_vars

\* C1 witness: S was re-written in append-replace mode with new data while a
\* different sheet T sits in the same workbook.
C1_Witness ==
    /\ lastCall.fn = "write_sheet" /\ lastCall.mode = "a"
    /\ lastCall.replaced = {"S"}
    /\ SheetNames(wb.sheets) = {"S", "T"}
    /\ SheetData(wb.sheets, "S") = TableB
    /\ SheetData(wb.sheets, "T") = TableA

\* C8: a table handed to a write path (write_sheets, or fulldata.main) that is
\* empty is neither created nor replaced as a sheet, is not reported as
\* written, and a notice that it was skipped is printed.
C8_EmptyTableSkipped ==
    lastCall.fn \in {"write_sheets", "main"} =>
        \A i \in DOMAIN lastCall.handed :
            Empty(lastCall.handed[i].data) =>
                /\ lastCall.handed[i].name \notin lastCall.touched
                /\ lastCall.handed[i].name \notin lastCall.reported
                /\ lastCall.handed[i].name \in lastCall.skipped

(***************************************************************************)
(* Barrel classification properties                                        *)
(***************************************************************************)
Zero(v) == IF v = None THEN 0 ELSE v[1]

\* The three bands, on a speed and an angle in tenths.
InBarrelBands(s, a) ==
    \/ s >= 980 /\ 260 <= a /\ a <= 300
    \/ s >= 1050 /\ 190 <= a /\ a <= 260
    \/ s >= 1090 /\ 130 <= a /\ a <= 190

\* C2: both copies of the classification give every sample exactly one flag,
\* set exactly when the bands hold of the speed and angle with a missing
\* value replaced by 0; a sample missing its speed or its angle is no barrel.
C2_BarrelClassification ==
    barrel.computed =>
        /\ DOMAIN barrel.hitters = DOMAIN df_sc
        /\ DOMAIN barrel.fulldata = DOMAIN df_sc
        /\ \A i \in DOMAIN df_sc :
              LET speed == df_sc[i].launch_speed
                  angle == df_sc[i].launch_angle
              IN  /\ barrel.hitters[i] \in {0, 1}
                  /\ barrel.fulldata[i] \in {0, 1}
                  /\ barrel.hitters[i] = 1 <=> InBarrelBands(Zero(speed), Zero(angle))
                  /\ barrel.fulldata[i] = 1 <=> InBarrelBands(Zero(speed), Zero(angle))
                  /\ (speed = None \/ angle = None) =>
                        barrel.hitters[i] = 0 /\ barrel.fulldata[i] = 0

\* C2 witness: (100, 28) is flagged a barrel and a sample with a missing speed
\* in the same frame is not.
C2_Witness ==
    /\ barrel.computed
    /\ df_sc = <<Sample(1, Some(1000), Some(280)), Sample(1, None, Some(280))>>
    /\ barrel.hitters = <<1, 0>>
    /\ barrel.fulldata = <<1, 0>>

(***************************************************************************)
(* Leaderboard properties                                                  *)
(***************************************************************************)
HittingRun == result.fn \in {"fetch_top75_and_enrich", "fetch_top50"}

\* C3: in every row of a hitting leaderboard HR% is undefined when at-bats is
\* 0 or missing, and otherwise is home runs / at-bats rounded to 4 decimals.
C3_HomeRunPct ==
    (HittingRun /\ ~result.board.raised) =>
        \A i \in DOMAIN result.board.df.rows :
            LET st == Splits(resp)[i].stat
                ab == Get(st, "atBats", 0)
                row == result.board.df.rows[i]
            IN  /\ ab = 0 => row.HRpct = None
                /\ row.HRpct # None => ab > 0
                /\ ab > 0 => row.HRpct = Some(Round4(Get(st, "homeRuns", 0), ab))
                /\ (ab = 200 /\ Get(st, "homeRuns", 0) = 50) => row.HRpct = Some(2500)

\* C4: the enrichment of a leaderboard of N rows yields N rows in the same
\* order with every original field unchanged; Barrel% and Avg_Exit_Vel are
\* populated only for players with a sample, and undefined for the others.
C4_EnrichmentAdditive ==
    (HittingRun /\ ~result.board.raised) =>
        /\ ~result.out.raised
        /\ Len(result.out.df.rows) = Len(result.board.df.rows)
        /\ \A i \in DOMAIN result.out.df.rows :
              LET before == result.board.df.rows[i]
                  after == result.out.df.rows[i]
              IN  /\ \A k \in DOMAIN before : after[k] = before[k]
                  /\ before.Player_ID \notin Batters(sc) =>
                        after.Barrelpct = None /\ after.Avg_Exit_Vel = None
                  /\ (after.Barrelpct # None \/ after.Avg_Exit_Vel # None) =>
                        before.Player_ID \in Batters(sc)

\* The same join, for the leaderboards that have at least one row.
EnrichmentAdditiveNonEmpty ==
    (HittingRun /\ ~result.board.raised /\ result.board.df.rows # <<>>) =>
        C4_EnrichmentAdditive

\* C9: a 2xx response without a statistics array (key absent or list empty)
\* is an empty result, not an index-out-of-range failure; a failing status
\* propagates before any row is produced.
C9_MissingStatsTolerated ==
    result.fn # "none" =>
        /\ (~RaisesForStatus(resp) /\ StatsIndexError(resp)) =>
              ~result.board.raised /\ Empty(result.board.df)
        /\ RaisesForStatus(resp) =>
              /\ result.board.raised /\ result.board.error = "HTTPError"
              /\ result.board.df.rows = <<>>

(***************************************************************************)
(* Event fetch properties                                                  *)
(***************************************************************************)
IsHomeRunPlay(play) == play.result.eventType = "home_run"

\* The qualifying plays of a day, as <<game, play>> positions.
HomeRunPlays(games0, feeds0) ==
    UNION { {<<g, p>> : p \in {q \in DOMAIN AllPlays(feeds0[games0[g].gamePk]) :
                                  IsHomeRunPlay(AllPlays(feeds0[games0[g].gamePk])[q])}}
            : g \in DOMAIN games0 }

\* Feed order: games in schedule order, plays in play order within a game.
FeedBefore(x, y) == x[1] < y[1] \/ (x[1] = y[1] /\ x[2] < y[2])

MinOf(S) == CHOOSE m \in S : \A n \in S : m <= n

\* C6: the fetch returns exactly one row for each play whose top-level event
\* type is home run, over every game of the date, in feed order; the row's
\* exit velocity and distance come from the first sub-event described as a
\* home run and are undefined when no sub-event is (or it has no hit data).
C6_OneRowPerHomeRun ==
    (homers.fetched /\ ~homers.out.raised) =>
        LET dates == Get(sched, "dates", <<>>)
            games0 == IF dates = <<>> THEN <<>> ELSE dates[1].games
            P == HomeRunPlays(games0, feeds)
            rows == homers.out.df.rows
        IN  /\ Len(rows) = Cardinality(P)
            /\ \A x \in P :
                  LET play == AllPlays(feeds[games0[x[1]].gamePk])[x[2]]
                      row == rows[Cardinality({y \in P : FeedBefore(y, x)}) + 1]
                      events == Get(play, "playEvents", <<>>)
                      matches == {i \in DOMAIN events : IsHomeRunEvent(events[i])}
                  IN  /\ row.Date = EventDate
                      /\ row.Batter = Some(play.matchup.batter.fullName)
                      /\ row.Pitcher = GetOpt(play.matchup.pitcher, "fullName")
                      /\ matches = {} =>
                            row.Exit_Vel = None /\ row.Distance = None
                      /\ matches # {} =>
                            LET hd == Get(events[MinOf(matches)], "hitData", EmptyDict)
                            IN  /\ row.Exit_Vel = GetOpt(hd, "launchSpeed")
                                /\ row.Distance = GetOpt(hd, "totalDistance")

\* C6 witness: a doubleheader whose first game has a home run with two
\* matching sub-events and whose second has one with none, after a single.
C6_Witness ==
    /\ homers.fetched /\ ~homers.out.raised
    /\ Len(feeds) = 2
    /\ AllPlays(feeds[1]) = <<PlayBy("D")>>
    /\ AllPlays(feeds[2]) = <<PlayBy("A"), PlayBy("B")>>
    /\ Len(homers.out.df.rows) = 2
    /\ homers.out.df.rows[1].Batter = Some("D")
    /\ homers.out.df.rows[1].Exit_Vel = Some(1034)
    /\ homers.out.df.rows[2].Batter = Some("B")
    /\ homers.out.df.rows[2].Exit_Vel = None

(***************************************************************************)
(* Season-reset run properties                                             *)
(***************************************************************************)
\* A day with no data: no date grouping, no or no games, or only games whose
\* plays list is missing, empty or without a home run.
NoData(w) ==
    LET dates == Get(w.sched, "dates", <<>>)
        games0 == IF dates = <<>> THEN <<>> ELSE Get(dates[1], "games", <<>>)
    IN  \A g \in DOMAIN games0 :
            \A q \in DOMAIN AllPlays(w.feeds[games0[g].gamePk]) :
                ~IsHomeRunPlay(AllPlays(w.feeds[games0[g].gamePk])[q])

\* C7: the fetch of a day with no data returns an empty table without
\* raising; main writes no sheet for the day, says so, and goes on.
C7_NoDataIsNotAnError ==
    (world.fetched /\ NoData(world)) =>
        /\ pc # "raised"
        /\ visited # <<>>
        /\ visited[Len(visited)].rows = 0
        /\ today = NextDay(visited[Len(visited)].date)
        /\ DaySheet(visited[Len(visited)].date) \notin SheetNames(wb.sheets)
        /\ lastCall.skipped = {DaySheet(visited[Len(visited)].date)}

DateLT(a, b) == DateLE(a, b) /\ a # b

\* The days of a completed run: every day of the window once, ascending.
VisitedWindow ==
    /\ Len(visited) = NumDays
    /\ visited[1].date = START_DATE
    /\ visited[Len(visited)].date = END_DATE
    /\ \A i \in 1..(Len(visited) - 1) :
          /\ DateLT(visited[i].date, visited[i + 1].date)
          /\ strftime(visited[i].date) # strftime(visited[i + 1].date)

\* The workbook of a completed run: the snapshot and one sheet for each day
\* with a home run, each holding this run's table.
FinalWorkbook ==
    /\ wb.exists /\ wb.zip
    /\ SheetNames(wb.sheets) =
          {TopSheet} \cup {DaySheet(visited[i].date) :
                              i \in {j \in DOMAIN visited : visited[j].rows > 0}}
    /\ Len(wb.sheets) = Cardinality(SheetNames(wb.sheets))
    /\ SheetData(wb.sheets, TopSheet) = top75
    /\ \A i \in DOMAIN visited :
          visited[i].rows > 0 =>
              LET rows == SheetData(wb.sheets, DaySheet(visited[i].date)).rows
              IN  /\ Len(rows) = visited[i].rows
                  /\ \A k \in DOMAIN rows : rows[k].Date = strftime(visited[i].date)

\* Once written, the snapshot sheet stays, unmodified.
SnapshotKept ==
    pc \in {"loop", "done"} =>
        /\ TopSheet \in SheetNames(wb.sheets)
        /\ TopSheet \in SheetNames(wb'.sheets)
        /\ SheetData(wb'.sheets, TopSheet) = SheetData(wb.sheets, TopSheet)

\* C10: a run of fulldata.main ends; one that completes has visited each day
\* of the window once in ascending order and leaves exactly the snapshot
\* sheet and the sheets of the days with a home run, whatever the workbook
\* held before; the snapshot sheet, once written, is never touched again.
C10_SeasonReset ==
    /\ [](pc = "done" => VisitedWindow /\ FinalWorkbook)
    /\ [][SnapshotKept]_vars
    /\ <>(pc \in {"done", "raised"})

\* C10 witness: a completed run over a prior workbook that held other sheets,
\* with a day that had home runs and a day that had none.
C10_Witness ==
    /\ pc = "done"
    /\ \E i, j \in DOMAIN visited : visited[i].rows > 0 /\ visited[j].rows = 0
    /\ visited[1].rows = 0
    /\ "Notes" \notin SheetNames(wb.sheets)
    /\ DaySheet(START_DATE) \notin SheetNames(wb.sheets)
    /\ Len(wb.sheets) >= 3

(***************************************************************************)
(* Softness properties                                                     *)
(***************************************************************************)
\* The ERA the per-pitcher endpoint knows for a starter, in hundredths.
KnownEra(pid) ==
    IF pid = 16 THEN Some(350) ELSE IF pid = 17 THEN Some(480)
    ELSE IF pid = 18 THEN Some(210) ELSE None

StarterId(side) ==
    IF "probablePitcher" \in DOMAIN side THEN side.probablePitcher.id ELSE 0

\* C5: each game's softness is the larger of the starters' known ERAs and
\* undefined when neither is known; in the sorted table the defined
\* softnesses do not increase and every undefined one comes after them.
C5_SoftnessRanking ==
    (table.ran /\ ~table.raised /\ table.message = "") =>
        LET games0 == fetch_schedule(softSched)
            rows == table.rows
        IN  /\ Len(rows) = Len(games0)
            /\ \A g \in DOMAIN games0 :
                  \E i \in DOMAIN rows :
                      /\ rows[i].Home = games0[g].teams.home.team.name
                      /\ rows[i].Away = games0[g].teams.away.team.name
                      /\ rows[i].Home_ERA = KnownEra(StarterId(games0[g].teams.home))
                      /\ rows[i].Away_ERA = KnownEra(StarterId(games0[g].teams.away))
            /\ \A i \in DOMAIN rows :
                  LET known == {e \in {rows[i].Home_ERA, rows[i].Away_ERA} : e # None}
                  IN  /\ known = {} => rows[i].Softness = None
                      /\ known # {} =>
                            /\ rows[i].Softness \in known
                            /\ \A e \in known : e[1] <= rows[i].Softness[1]
            /\ \A i, j \in DOMAIN rows :
                  (i < j /\ rows[j].Softness # None) =>
                      /\ rows[i].Softness # None
                      /\ rows[i].Softness[1] >= rows[j].Softness[1]

\* C5 witness: a game with no known ERA scheduled first, then 3.50 against
\* an unannounced starter, then 3.50 against 4.80: printed in reverse.
C5_Witness ==
    /\ table.ran /\ ~table.raised
    /\ Len(table.rows) = 3
    /\ table.rows[1].Home = "H3" /\ table.rows[1].Softness = Some(480)
    /\ table.rows[1].Home_ERA = Some(350)
    /\ table.rows[2].Home = "H2" /\ table.rows[2].Softness = Some(350)
    /\ table.rows[2].Away_ERA = None
    /\ table.rows[3].Home = "H1" /\ table.rows[3].Softness = None

====
